---------------------------- MODULE Spec2Model ----------------------------
(***************************************************************************)
(* Model of pulp.server.logs (CompliantSysLogHandler, start_logging) and   *)
(* of the pulp.plugins.util.verification helpers.                          *)
(*                                                                         *)
(* Text is modelled as Python 2 models it: a unicode object is a sequence  *)
(* of code points, a str is a sequence of octets (0..255).  Python's       *)
(* indexing and slicing rules (negative indices, clamping, IndexError)     *)
(* are modelled as they are, because _cut_message relies on them.          *)
(***************************************************************************)
EXTENDS Integers, Sequences, FiniteSets, TLC

VARIABLES
    op,               \* the operation this behaviour runs
    pc,               \* position of the running operation
    error,            \* the exception that ended it ("" when none)
    event,            \* emit: the LogRecord as the application handed it over
    record,           \* emit: the LogRecord as emit has mutated it
    resolved,         \* emit: record.getMessage(), the text emit splits
    lines,            \* emit: resolved.split('\n'); cut: the one message
    lineNo,           \* index (1-based) of the line being cut
    formatter_buffer, \* _cut_message: its formatter_buffer argument
    message,          \* _cut_message: the encoded message (octets)
    i,                \* _cut_message: the loop position i
    stalls,           \* _cut_message: iterations that left i where it was
    chunks,           \* every chunk _cut_message yielded, with its line
    emitted,          \* emit: the records handed to SysLogHandler.emit
    vin,              \* verification: the call's arguments
    vout,             \* verification: the call's result
    cfg,              \* start_logging: the 'server'/'log_level' setting
    py27,             \* start_logging: Logger.setLevel validates (>= 2.7)
    loggers           \* start_logging: root and manager.loggerDict

vars == <<op, pc, error, event, record, resolved, lines, lineNo,
          formatter_buffer, message, i, stalls, chunks, emitted,
          vin, vout, cfg, py27, loggers>>

emitVars == <<event, record, resolved, emitted>>
cutVars == <<lines, lineNo, formatter_buffer, message, i, stalls, chunks>>
verifyVars == <<vin, vout>>
loggingVars == <<cfg, py27, loggers>>

---------------------------------------------------------------------------
(* Bounds of the model.                                                    *)

MaxLineLen == 3      \* code points of a message handed to _cut_message
MaxMsgLen == 2       \* code points of record.msg
MaxExcLen == 2       \* code points of the rendered traceback
MaxArgs == 1         \* length of record.args
MaxBudget == 4       \* largest small per-fragment budget explored
BudgetSlack == 2     \* how far below zero the per-fragment budget goes
MaxStalls == 2       \* non-advancing iterations followed before stopping
MaxStreamLen == 3    \* octets of a verified stream
ChunkSize == 2       \* octets read from a stream at a time

---------------------------------------------------------------------------
(* Python sequence semantics.                                              *)

Min(a, b) == IF a < b THEN a ELSE b

IndexError == -1

\* s[k]: IndexError unless -len(s) <= k < len(s); negative k counts from the end
PyIndex(s, k) ==
    IF k >= 0 /\ k < Len(s) THEN s[k + 1]
    ELSE IF k < 0 /\ k >= -Len(s) THEN s[Len(s) + k + 1]
    ELSE IndexError

PyClamp(s, k) ==
    IF k < 0 THEN (IF Len(s) + k < 0 THEN 0 ELSE Len(s) + k)
    ELSE Min(k, Len(s))

\* s[a:b]
PySlice(s, a, b) ==
    LET lo == PyClamp(s, a)
        hi == PyClamp(s, b)
    IN  IF lo < hi THEN SubSeq(s, lo + 1, hi) ELSE <<>>

\* s[a:]
PySliceFrom(s, a) == PySlice(s, a, Len(s))

---------------------------------------------------------------------------
(* UTF-8.                                                                  *)

\* unicode.encode('utf8') of one code point
EncodeChar(c) ==
    IF c < 128 THEN <<c>>
    ELSE IF c < 2048 THEN <<192 + (c \div 64), 128 + (c % 64)>>
    ELSE IF c < 65536 THEN
        <<224 + (c \div 4096), 128 + ((c \div 64) % 64), 128 + (c % 64)>>
    ELSE <<240 + (c \div 262144), 128 + ((c \div 4096) % 64),
           128 + ((c \div 64) % 64), 128 + (c % 64)>>

\* unicode.encode('utf8'): the code points' encodings in order (computed by
\* halving, so that long texts do not need deep recursion)
RECURSIVE Encode(_)
Encode(u) ==
    IF Len(u) = 0 THEN <<>>
    ELSE IF Len(u) = 1 THEN EncodeChar(u[1])
    ELSE LET h == Len(u) \div 2
         IN  Encode(SubSeq(u, 1, h)) \o Encode(SubSeq(u, h + 1, Len(u)))

\* (ord(b) >> 6) == 2
IsContinuation(b) == (b \div 64) = 2

\* the message as _cut_message holds it after lines 178-179
EncodeIfUnicode(arg) == IF arg.unicode THEN Encode(arg.data) ELSE arg.data

---------------------------------------------------------------------------
(* CompliantSysLogHandler._cut_message.                                    *)

MAX_MSG_LENGTH == 2041

\* lines 187-191: the retreat loop.  ok = FALSE when message[i + rel] raises
RECURSIVE Retreat(_, _, _)
Retreat(msg, pos, rel) ==
    LET b == PyIndex(msg, pos + rel)
    IN  IF b = IndexError THEN [ok |-> FALSE, rel |-> rel]
        ELSE IF IsContinuation(b) THEN Retreat(msg, pos, rel - 1)
        ELSE [ok |-> TRUE, rel |-> rel]

\* the cut without the look-ahead of lines 184-191
RelativeEndingIndexNoRetreat(msg, pos, max_length) ==
    [ok |-> TRUE, rel |-> Min(max_length, Len(PySliceFrom(msg, pos)))]

\* lines 183-191: relative_ending_index of one iteration of the outer loop
RelativeEndingIndex(msg, pos, max_length) ==
    LET r0 == Min(max_length, Len(PySliceFrom(msg, pos)))
    IN  IF Len(msg) > pos + r0 THEN Retreat(msg, pos, r0)
        ELSE [ok |-> TRUE, rel |-> r0]

\* line 177
MaxLength == MAX_MSG_LENGTH - formatter_buffer

\* lines 136-139: the record emit builds around one chunk
NewRecord(rec, chunk) ==
    [name |-> rec.name, levelno |-> rec.levelno, levelname |-> rec.levelname,
     msg |-> chunk, args |-> <<>>, exc_info |-> <<>>]

\* what the consumer of the generator does with one yielded chunk: emit wraps
\* it in a record and hands it to SysLogHandler.emit (lines 128-140)
Consume(cs) ==
    /\ chunks' = chunks \o [k \in 1..Len(cs) |-> [line |-> lineNo, chunk |-> cs[k]]]
    /\ emitted' = IF op = "emit"
                  THEN emitted \o [k \in 1..Len(cs) |-> NewRecord(record, cs[k])]
                  ELSE emitted

\* lines 182-193: one iteration of "while i < len(message)"
CutIter ==
    /\ pc = "cut"
    /\ i < Len(message)
    /\ stalls < MaxStalls
    /\ LET r == RelativeEndingIndex(message, i, MaxLength)
       IN  IF ~r.ok
           THEN /\ pc' = "raised"
                /\ error' = "IndexError"
                /\ UNCHANGED <<chunks, emitted, i, stalls>>
           ELSE /\ Consume(<<PySlice(message, i, i + r.rel)>>)
                /\ i' = i + r.rel
                /\ stalls' = IF r.rel = 0 THEN stalls + 1 ELSE stalls
                /\ UNCHANGED <<pc, error>>
    /\ UNCHANGED <<op, event, record, resolved, lines, lineNo,
                   formatter_buffer, message>>
    /\ UNCHANGED <<verifyVars, loggingVars>>

\* lines 182, 195-197: the loop ends, '' is yielded when i is still 0 and the
\* generator is exhausted; emit's "for line" (line 127) moves to the next
\* line and calls _cut_message on it (lines 177-181)
CutReturn ==
    /\ pc = "cut"
    /\ ~(i < Len(message))
    /\ Consume(IF i = 0 THEN << <<>> >> ELSE <<>>)
    /\ IF lineNo < Len(lines)
       THEN /\ lineNo' = lineNo + 1
            /\ message' = EncodeIfUnicode(lines[lineNo + 1])
            /\ i' = 0
            /\ stalls' = 0
            /\ pc' = "cut"
       ELSE /\ pc' = "done"
            /\ UNCHANGED <<lineNo, message, i, stalls>>
    /\ UNCHANGED <<op, error, event, record, resolved, lines, formatter_buffer>>
    /\ UNCHANGED <<verifyVars, loggingVars>>

\* a direct call _cut_message(message, formatter_buffer): lines 177-181
CutCall ==
    /\ op = "cut"
    /\ pc = "start"
    /\ message' = EncodeIfUnicode(lines[1])
    /\ i' = 0
    /\ pc' = "cut"
    /\ UNCHANGED <<op, error, emitVars, lines, lineNo, formatter_buffer,
                   stalls, chunks>>
    /\ UNCHANGED <<verifyVars, loggingVars>>

---------------------------------------------------------------------------
(* LogRecord.getMessage and the formatter.                                 *)

Percent == 37
LetterS == 115
Newline == 10

\* msg % args for a tuple args, from position k of msg with the arguments
\* from position a on left: %s takes the next argument, %% is a literal %;
\* too few or too many arguments raise TypeError, any other directive
\* ValueError
RECURSIVE PyFormat(_, _, _, _)
PyFormat(msg, k, args, a) ==
    IF k > Len(msg)
    THEN IF a <= Len(args) THEN [ok |-> FALSE, text |-> <<>>, err |-> "TypeError"]
         ELSE [ok |-> TRUE, text |-> <<>>, err |-> ""]
    ELSE IF msg[k] # Percent
    THEN LET rest == PyFormat(msg, k + 1, args, a)
         IN  IF rest.ok THEN [rest EXCEPT !.text = <<msg[k]>> \o @] ELSE rest
    ELSE IF k = Len(msg) THEN [ok |-> FALSE, text |-> <<>>, err |-> "ValueError"]
    ELSE IF msg[k + 1] = Percent
    THEN LET rest == PyFormat(msg, k + 2, args, a)
         IN  IF rest.ok THEN [rest EXCEPT !.text = <<Percent>> \o @] ELSE rest
    ELSE IF msg[k + 1] = LetterS
    THEN IF a > Len(args) THEN [ok |-> FALSE, text |-> <<>>, err |-> "TypeError"]
         ELSE LET rest == PyFormat(msg, k + 2, args, a + 1)
              IN  IF rest.ok THEN [rest EXCEPT !.text = args[a] \o @] ELSE rest
    ELSE [ok |-> FALSE, text |-> <<>>, err |-> "ValueError"]

\* LogRecord.getMessage(): the arguments are applied only when there are any
GetMessage(rec) ==
    IF rec.args # <<>> THEN PyFormat(rec.msg, 1, rec.args, 1)
    ELSE [ok |-> TRUE, text |-> rec.msg, err |-> ""]

\* text.split('\n')
RECURSIVE Split(_)
Split(text) ==
    IF \A k \in 1..Len(text) : text[k] # Newline THEN <<text>>
    ELSE LET n == CHOOSE k \in 1..Len(text) :
                      text[k] = Newline /\ \A j \in 1..(k - 1) : text[j] # Newline
         IN  <<SubSeq(text, 1, n - 1)>> \o Split(SubSeq(text, n + 1, Len(text)))

\* a logger name of n ASCII characters; a record carries its name as n
NameText(n) == [k \in 1..n |-> 97]

\* LOG_FORMAT_STRING % record.__dict__ :
\* 'pulp: %(name)s:%(levelname)s: %(message)s'
FormatRecord(rec, msgText) ==
    <<112, 117, 108, 112, 58, 32>> \o NameText(rec.name) \o <<58>>
        \o rec.levelname \o <<58, 32>> \o msgText

\* lines 152-158, for a record whose getMessage() is msgText
CalculateFormatterBuffer(rec, msgText) ==
    Len(Encode(FormatRecord(rec, msgText))) - Len(Encode(msgText))

\* lines 120-125: the attached failure is folded into record.msg
Normalize(rec) ==
    IF rec.exc_info # <<>>
    THEN [rec EXCEPT !.msg = rec.msg \o <<Newline>> \o rec.exc_info[1],
                     !.exc_info = <<>>]
    ELSE rec

AsUnicode(ls) == [k \in 1..Len(ls) |-> [unicode |-> TRUE, data |-> ls[k]]]

\* lines 120-128, up to the first call of _cut_message (lines 177-181)
EmitStart ==
    /\ op = "emit"
    /\ pc = "start"
    /\ LET rec == Normalize(event)
           m == GetMessage(rec)
       IN  /\ record' = rec
           /\ IF ~m.ok
              THEN /\ pc' = "raised"
                   /\ error' = m.err
                   /\ UNCHANGED <<resolved, cutVars>>
              ELSE /\ resolved' = m.text
                   /\ formatter_buffer' = CalculateFormatterBuffer(rec, m.text)
                   /\ lines' = AsUnicode(Split(m.text))
                   /\ lineNo' = 1
                   /\ message' = Encode(Split(m.text)[1])
                   /\ i' = 0
                   /\ pc' = "cut"
                   /\ UNCHANGED <<error, stalls, chunks>>
    /\ UNCHANGED <<op, event, emitted>>
    /\ UNCHANGED <<verifyVars, loggingVars>>

---------------------------------------------------------------------------
(* pulp.plugins.util.verification: verify_size and verify_checksum.        *)

\* a single read instead of the read loop
ReadSizeOnce(stream, n) == n + Len(PySlice(stream, 0, ChunkSize))

\* file_object.read(ChunkSize) until it returns '', counting the octets
RECURSIVE ReadSize(_, _)
ReadSize(stream, n) ==
    LET bits == PySlice(stream, 0, ChunkSize)
    IN  IF bits = <<>> THEN n
        ELSE ReadSize(PySliceFrom(stream, Len(bits)), n + Len(bits))

\* verify_size(stream, expected_size)
VerifySizeResult(stream, expected_size) ==
    LET found == ReadSize(stream, 0)
    IN  [raised |-> "", valid |-> (found = expected_size), found |-> found]

\* the supported checksum types: TYPE_MD5, TYPE_SHA1, TYPE_SHA256
CHECKSUM_FUNCTIONS == {"md5", "sha1", "sha256"}

\* a stand-in for the digest constructors: a small keyed rolling hash
\* (state 0..250), different for each algorithm
HasherNew(algorithm) ==
    IF algorithm = "md5" THEN 5 ELSE IF algorithm = "sha1" THEN 1 ELSE 56

RECURSIVE HasherUpdate(_, _, _)
HasherUpdate(algorithm, h, bits) ==
    IF bits = <<>> THEN h
    ELSE LET mult == IF algorithm = "md5" THEN 3
                     ELSE IF algorithm = "sha1" THEN 7 ELSE 11
         IN  HasherUpdate(algorithm, (h * mult + Head(bits)) % 251, Tail(bits))

\* hexdigest(): lower-case hexadecimal digits
HexDigits == <<48, 49, 50, 51, 52, 53, 54, 55, 56, 57, 97, 98, 99, 100, 101, 102>>
HexDigest(h) == <<HexDigits[(h \div 16) + 1], HexDigits[(h % 16) + 1]>>

\* file_object.read(ChunkSize) until it returns '', feeding the hasher
RECURSIVE ReadDigest(_, _, _)
ReadDigest(algorithm, stream, h) ==
    LET bits == PySlice(stream, 0, ChunkSize)
    IN  IF bits = <<>> THEN h
        ELSE ReadDigest(algorithm, PySliceFrom(stream, Len(bits)),
                        HasherUpdate(algorithm, h, bits))

\* an unknown checksum type treated as a checksum that does not match
VerifyChecksumSilent(stream, algorithm, expected) ==
    LET found == HexDigest(ReadDigest(algorithm, stream, HasherNew(algorithm)))
    IN  [raised |-> "", valid |-> (algorithm \in CHECKSUM_FUNCTIONS /\ found = expected),
         found |-> found]

\* verify_checksum(stream, checksum_type, checksum_value)
VerifyChecksumResult(stream, algorithm, expected) ==
    IF algorithm \notin CHECKSUM_FUNCTIONS
    THEN [raised |-> "ValueError", valid |-> FALSE, found |-> <<>>]
    ELSE LET found == HexDigest(ReadDigest(algorithm, stream, HasherNew(algorithm)))
         IN  [raised |-> "", valid |-> (found = expected), found |-> found]

VerifySize ==
    /\ op = "verify_size"
    /\ pc = "start"
    /\ vout' = VerifySizeResult(vin.stream, vin.expected)
    /\ pc' = "done"
    /\ UNCHANGED <<op, error, vin, emitVars, cutVars, loggingVars>>

VerifyChecksum ==
    /\ op = "verify_checksum"
    /\ pc = "start"
    /\ LET r == VerifyChecksumResult(vin.stream, vin.algorithm, vin.expected)
       IN  /\ vout' = r
           /\ pc' = IF r.raised = "" THEN "done" ELSE "raised"
           /\ error' = r.raised
    /\ UNCHANGED <<op, vin, emitVars, cutVars, loggingVars>>

---------------------------------------------------------------------------
(* start_logging.                                                          *)

IntValue(n) == [type |-> "int", val |-> n]
StrValue == [type |-> "str", val |-> 0]

\* the upper-case attributes of the logging module: the level constants
\* and BASIC_FORMAT, which is a format string
LoggingAttributes ==
    {[name |-> <<67, 82, 73, 84, 73, 67, 65, 76>>, value |-> IntValue(50)],
     [name |-> <<70, 65, 84, 65, 76>>, value |-> IntValue(50)],
     [name |-> <<69, 82, 82, 79, 82>>, value |-> IntValue(40)],
     [name |-> <<87, 65, 82, 78, 73, 78, 71>>, value |-> IntValue(30)],
     [name |-> <<87, 65, 82, 78>>, value |-> IntValue(30)],
     [name |-> <<73, 78, 70, 79>>, value |-> IntValue(20)],
     [name |-> <<68, 69, 66, 85, 71>>, value |-> IntValue(10)],
     [name |-> <<78, 79, 84, 83, 69, 84>>, value |-> IntValue(0)],
     [name |-> <<66, 65, 83, 73, 67, 95, 70, 79, 82, 77, 65, 84>>,
      value |-> StrValue]}

\* logging.INFO
DEFAULT_LOG_LEVEL == IntValue(20)
NOTSET == IntValue(0)

\* str.upper()
Upper(s) == [k \in 1..Len(s) |-> IF s[k] \in 97..122 THEN s[k] - 32 ELSE s[k]]

\* lines 32-38: the level start_logging settles on
ConfiguredLevel(setting) ==
    IF ~setting.present THEN DEFAULT_LOG_LEVEL
    ELSE LET found == {a \in LoggingAttributes : a.name = Upper(setting.value)}
         IN  IF found = {} THEN DEFAULT_LOG_LEVEL
             ELSE (CHOOSE a \in found : TRUE).value

\* Logger.setLevel: since Python 2.7 it validates its argument, and a string
\* that names no level raises ValueError; before, it stores what it is given
SetLevelRaises(level, validating) == validating /\ level.type # "int"

Dot == 46

\* '.' in logger_name
IsChild(name) == \E k \in 1..Len(name) : name[k] = Dot

\* logger_name.split('.')[0]
ParentName(name) ==
    LET n == CHOOSE k \in 1..Len(name) :
                 name[k] = Dot /\ \A j \in 1..(k - 1) : name[j] # Dot
    IN  SubSeq(name, 1, n - 1)

\* lines 53-68
ParentLoggerNames(dict) ==
    {ParentName(n) : n \in {m \in DOMAIN dict : IsChild(m)}}
        \cup {n \in DOMAIN dict : ~IsChild(n)}

\* lines 54-80: loggerDict after both loops
ConfigureLoggers(dict, level) ==
    LET parents == ParentLoggerNames(dict)
    IN  [n \in DOMAIN dict \cup parents |->
            IF n \in parents
            THEN [level |-> level, propagate |-> 0, handlers |-> {"syslog"}]
            ELSE [level |-> NOTSET, propagate |-> 1, handlers |-> {}]]

StartLogging ==
    /\ op = "start_logging"
    /\ pc = "start"
    /\ LET level == ConfiguredLevel(cfg)
       IN  IF SetLevelRaises(level, py27)
           THEN /\ pc' = "raised"
                /\ error' = "ValueError"
                /\ UNCHANGED loggers
           ELSE /\ pc' = "done"
                /\ loggers' = [root |-> [level |-> level, handlers |-> {"syslog"}],
                               dict |-> ConfigureLoggers(loggers.dict, level)]
                /\ UNCHANGED error
    /\ UNCHANGED <<op, cfg, py27, emitVars, cutVars, verifyVars>>

---------------------------------------------------------------------------
(* Inputs.                                                                 *)

SeqsUpTo(S, n) == UNION {[1..k -> S] : k \in 0..n}

\* 'a', e-acute, the euro sign, an emoji: encodings of 1, 2, 3 and 4 octets
CutAlphabet == {97, 233, 8364, 128512}

\* budgets 2041 - formatter_buffer from -BudgetSlack to MaxBudget
SmallBudgets == (0 - BudgetSlack)..MaxBudget

\* 5000 ASCII characters cut with a formatter buffer of 10
ExampleCall ==
    [arg |-> [unicode |-> FALSE, data |-> [k \in 1..5000 |-> 97]], buffer |-> 10]

CutCalls ==
    {[arg |-> [unicode |-> TRUE, data |-> u], buffer |-> MAX_MSG_LENGTH - b] :
        u \in SeqsUpTo(CutAlphabet, MaxLineLen), b \in SmallBudgets}
    \cup {[arg |-> [unicode |-> FALSE, data |-> Encode(u)],
           buffer |-> MAX_MSG_LENGTH - b] :
        u \in SeqsUpTo(CutAlphabet, MaxLineLen), b \in SmallBudgets}
    \cup {ExampleCall}

\* record.msg: 'a', '%', 's', newline;  the traceback: e-acute, '%'
MsgAlphabet == {97, Percent, LetterS, Newline}
ExcAlphabet == {233, Percent}

\* 'INFO'
LevelInfo == <<73, 78, 70, 79>>

\* logger names: 'root', and names long enough to leave budgets of 2, 1, -2
EmitNames == {4} \cup {MAX_MSG_LENGTH - 13 - b : b \in {2, 1, -2}}

Events ==
    [msg : SeqsUpTo(MsgAlphabet, MaxMsgLen),
     args : SeqsUpTo({<<120>>}, MaxArgs),
     exc_info : {<<>>} \cup {<<t>> : t \in SeqsUpTo(ExcAlphabet, MaxExcLen)},
     name : EmitNames,
     levelname : {LevelInfo},
     levelno : {20}]

NoEvent ==
    [msg |-> <<>>, args |-> <<>>, exc_info |-> <<>>, name |-> 0,
     levelname |-> <<>>, levelno |-> 0]

\* stream contents: 'T' and 'e'
Streams == SeqsUpTo({84, 101}, MaxStreamLen)

SizeCalls ==
    [fn : {"verify_size"}, stream : Streams, expected : 0..(MaxStreamLen + 1)]

\* expected checksums: the digest of some stream under the algorithm, or 'foo'
ChecksumCalls ==
    {[fn |-> "verify_checksum", stream |-> s, algorithm |-> a, expected |-> e] :
        s \in Streams, a \in CHECKSUM_FUNCTIONS \cup {"fake-type"},
        e \in {HexDigest(ReadDigest("sha256", t, HasherNew("sha256"))) :
                  t \in Streams} \cup {<<102, 111, 111>>}}

NoCall == [fn |-> ""]
NoResult == [raised |-> "", valid |-> FALSE, found |-> 0]

\* 'info', 'DEBUG', 'Warning', 'bogus', 'basic_format', ''
Settings ==
    {[present |-> FALSE, value |-> <<>>]}
    \cup {[present |-> TRUE, value |-> v] :
            v \in {<<105, 110, 102, 111>>, <<68, 69, 66, 85, 71>>,
                   <<87, 97, 114, 110, 105, 110, 103>>,
                   <<98, 111, 103, 117, 115>>,
                   <<98, 97, 115, 105, 99, 95, 102, 111, 114, 109, 97, 116>>,
                   <<>>}}

NoSetting == [present |-> FALSE, value |-> <<>>]

\* loggers other code got before start_logging: 'c', 'p', 'p.s', 'k.w'
LoggerNames == {<<99>>, <<112>>, <<112, 46, 115>>, <<107, 46, 119>>}

\* a logger as some library left it: level WARNING, its own handler
ForeignLogger == [level |-> IntValue(30), propagate |-> 1, handlers |-> {"other"}]

LoggerStates ==
    {[root |-> [level |-> IntValue(30), handlers |-> {"other"}],
      dict |-> [n \in names |-> ForeignLogger]] : names \in SUBSET LoggerNames}

NoLoggers == [root |-> [level |-> IntValue(30), handlers |-> {}], dict |-> <<>>]

InitCommon ==
    /\ pc = "start"
    /\ error = ""
    /\ record = event
    /\ resolved = <<>>
    /\ lineNo = 1
    /\ message = <<>>
    /\ i = 0
    /\ stalls = 0
    /\ chunks = <<>>
    /\ emitted = <<>>
    /\ vout = NoResult

InitEmit ==
    /\ op = "emit"
    /\ event \in Events
    /\ lines = <<>>
    /\ formatter_buffer = 0
    /\ vin = NoCall /\ cfg = NoSetting /\ py27 = TRUE /\ loggers = NoLoggers

InitCut ==
    /\ op = "cut"
    /\ event = NoEvent
    /\ \E c \in CutCalls :
          /\ lines = <<c.arg>>
          /\ formatter_buffer = c.buffer
    /\ vin = NoCall /\ cfg = NoSetting /\ py27 = TRUE /\ loggers = NoLoggers

InitVerify ==
    /\ vin \in SizeCalls \cup ChecksumCalls
    /\ op = vin.fn
    /\ event = NoEvent
    /\ lines = <<>>
    /\ formatter_buffer = 0
    /\ cfg = NoSetting /\ py27 = TRUE /\ loggers = NoLoggers

InitLogging ==
    /\ op = "start_logging"
    /\ cfg \in Settings
    /\ py27 \in BOOLEAN
    /\ loggers \in LoggerStates
    /\ event = NoEvent
    /\ lines = <<>>
    /\ formatter_buffer = 0
    /\ vin = NoCall

Init == (InitEmit \/ InitCut \/ InitVerify \/ InitLogging) /\ InitCommon

Next ==
    \/ EmitStart
    \/ CutCall
    \/ CutIter
    \/ CutReturn
    \/ VerifySize
    \/ VerifyChecksum
    \/ StartLogging

Spec == Init /\ [][Next]_vars

---------------------------------------------------------------------------
(* Properties.                                                             *)

\* the chunks from position k on, joined, with a newline put back between
\* the chunks of one line and those of the next
RECURSIVE Join(_, _)
Join(cs, k) ==
    IF k > Len(cs) THEN <<>>
    ELSE (IF k > 1 /\ cs[k].line # cs[k - 1].line THEN <<Newline>> ELSE <<>>)
             \o cs[k].chunk \o Join(cs, k + 1)

\* number of octets of the character a leading octet starts (0: not leading)
Width(b) ==
    IF b < 128 THEN 1 ELSE IF b < 192 THEN 0 ELSE IF b < 224 THEN 2
    ELSE IF b < 240 THEN 3 ELSE 4

\* c is a sequence of whole encoded characters
WholeCharacters(c) ==
    /\ c # <<>> => ~IsContinuation(c[1])
    /\ \A k \in 1..Len(c) :
          Width(c[k]) > 0 =>
              /\ k + Width(c[k]) - 1 <= Len(c)
              /\ \A j \in 1..(Width(c[k]) - 1) : IsContinuation(c[k + j])
              /\ k + Width(c[k]) <= Len(c) => ~IsContinuation(c[k + Width(c[k])])

Splitting == op \in {"emit", "cut"}

\* the splitter ended: emit (or the generator) returned, or IndexError left it
SplitEnded == Splitting /\ (pc = "done" \/ (pc = "raised" /\ error = "IndexError"))

\* the octets the splitter was given: the resolved message, or the argument
Given == IF op = "emit" THEN Encode(resolved) ELSE EncodeIfUnicode(lines[1])

\* C1: every fragment is at most MAX_MSG_LENGTH - overhead octets long, so
\* that fragment plus overhead never exceeds 2041 octets.
C1_FragmentWithinBudget ==
    Splitting => \A k \in 1..Len(chunks) :
                    Len(chunks[k].chunk) + formatter_buffer <= MAX_MSG_LENGTH

\* C1, where the budget is not negative: the bound holds.
C1_WithinBudgetWhenBudgetNotNegative ==
    Splitting /\ MaxLength >= 0 => C1_FragmentWithinBudget

\* C2: once emit has ended, the emitted messages, joined in order with a
\* newline between the groups of consecutive lines, are the UTF-8 encoding
\* of the resolved message.
C2_RoundTrip ==
    op = "emit" /\ SplitEnded =>
        /\ Len(emitted) = Len(chunks)
        /\ \A k \in 1..Len(emitted) : emitted[k].msg = chunks[k].chunk
        /\ Join(chunks, 1) = Encode(resolved)

\* C2, partial correctness: whatever has been emitted is a prefix of the
\* encoded message, and all of it once emit returns.
C2_PrefixThenAllOnReturn ==
    Splitting /\ pc # "start" =>
        LET j == Join(chunks, 1)
        IN  /\ Len(j) <= Len(Given)
            /\ j = SubSeq(Given, 1, Len(j))
            /\ pc = "done" => j = Given

\* C3: no fragment begins with a continuation octet and every fragment is
\* a sequence of whole encoded characters, whatever the overhead.
C3_WholeCharacters ==
    Splitting => \A k \in 1..Len(chunks) : WholeCharacters(chunks[k].chunk)

\* C3 witness: a cut was moved back: a fragment shorter than the budget is
\* followed by a fragment of the same line that starts a multi-octet character.
C3_Witness ==
    /\ Splitting
    /\ MaxLength > 0
    /\ \E k \in 1..(Len(chunks) - 1) :
          /\ chunks[k].line = chunks[k + 1].line
          /\ chunks[k].chunk # <<>>
          /\ Len(chunks[k].chunk) < MaxLength
          /\ chunks[k + 1].chunk # <<>>
          /\ Width(chunks[k + 1].chunk[1]) > 1

\* C4: every iteration of the outer loop advances i by at least one octet,
\* and the retreat never moves the cut before the start of the fragment nor
\* leaves the message (IndexError).
C4_EveryIterationAdvances ==
    [][(Splitting /\ pc = "cut" /\ i < Len(message)) => (pc' = "cut" /\ i' > i)]_vars

\* C4, for budgets of at least four octets (the longest encoded character).
C4_AdvancesWhenBudgetAtLeastFour ==
    [][(Splitting /\ pc = "cut" /\ i < Len(message) /\ MaxLength >= 4)
          => (pc' = "cut" /\ i' > i)]_vars

\* the text C5 expects emit to split: the original message with its
\* arguments applied, a newline, the rendered failure
ExpectedResolved == GetMessage(event).text \o <<Newline>> \o event.exc_info[1]

\* C5: for an event with an attached failure whose message and arguments
\* format, emit splits message % args + newline + failure text, clears the
\* failure slot, and emits only records with empty args and no failure.
C5_FailureTextVerbatim ==
    (op = "emit" /\ pc # "start" /\ event.exc_info # <<>> /\ GetMessage(event).ok) =>
        /\ error \notin {"TypeError", "ValueError"}
        /\ resolved = ExpectedResolved
        /\ record.exc_info = <<>>
        /\ \A k \in 1..Len(emitted) :
              emitted[k].args = <<>> /\ emitted[k].exc_info = <<>>

\* C5, with no arguments: the failure text is appended verbatim.
C5_VerbatimWithoutArgs ==
    event.args = <<>> => C5_FailureTextVerbatim

\* C6: once emit has ended, an empty resolved message has produced exactly
\* one record, with the empty message; every event has produced at least
\* one record; every empty line exactly one fragment, the empty one.
C6_AtLeastOneRecord ==
    op = "emit" /\ SplitEnded =>
        /\ resolved = <<>> => (Len(emitted) = 1 /\ emitted[1].msg = <<>>)
        /\ Len(emitted) >= 1
        /\ \A n \in 1..Len(lines) :
              lines[n].data = <<>> =>
                  \E k \in 1..Len(chunks) :
                      /\ chunks[k] = [line |-> n, chunk |-> <<>>]
                      /\ \A m \in 1..Len(chunks) : chunks[m].line = n => m = k

\* C6, when emit returns: the same.
C6_OnReturn ==
    pc = "done" => C6_AtLeastOneRecord

IsAscii(octets) == \A k \in 1..Len(octets) : octets[k] < 128

\* C10: every fragment that another fragment of the same line follows is
\* at most M = 2041 - overhead octets long (and at least M - 3), the
\* character that starts the next fragment would not have fitted, and it is
\* exactly M octets long for ASCII text; once the splitter has ended, a
\* line of L > 0 ASCII characters has given n fragments with
\* (n - 1) * M < L <= n * M.
C10_Greedy ==
    Splitting =>
        /\ \A k \in 1..(Len(chunks) - 1) :
              chunks[k].line = chunks[k + 1].line =>
                  /\ Len(chunks[k].chunk) <= MaxLength
                  /\ Len(chunks[k].chunk) >= MaxLength - 3
                  /\ chunks[k + 1].chunk # <<>> =>
                        Len(chunks[k].chunk) + Width(chunks[k + 1].chunk[1])
                            > MaxLength
                  /\ IsAscii(Given) => Len(chunks[k].chunk) = MaxLength
        /\ (op = "cut" /\ SplitEnded /\ IsAscii(Given) /\ Len(Given) > 0) =>
              /\ (Len(chunks) - 1) * MaxLength < Len(Given)
              /\ Len(Given) <= Len(chunks) * MaxLength

\* C10, for budgets of at least four octets.
C10_GreedyWhenBudgetAtLeastFour ==
    MaxLength >= 4 => C10_Greedy

\* C10, the example: 5000 ASCII characters with overhead 10 give fragments
\* of 2031, 2031 and 938 octets.
C10_Example ==
    (op = "cut" /\ pc = "done" /\ Len(Given) = 5000 /\ formatter_buffer = 10) =>
        /\ Len(chunks) = 3
        /\ Len(chunks[1].chunk) = 2031
        /\ Len(chunks[2].chunk) = 2031
        /\ Len(chunks[3].chunk) = 938

\* C7: verify_size never raises and returns (actual size = expected size,
\* actual size), the actual size being the stream's length.
C7_VerifySize ==
    op = "verify_size" =>
        /\ pc # "raised"
        /\ pc = "done" =>
              /\ vout.raised = ""
              /\ vout.found = Len(vin.stream)
              /\ vout.valid = (Len(vin.stream) = vin.expected)

\* C7 witness: a stream longer than one read, verified against another size.
C7_Witness ==
    /\ op = "verify_size"
    /\ pc = "done"
    /\ Len(vin.stream) > ChunkSize
    /\ vin.expected # Len(vin.stream)
    /\ vout = [raised |-> "", valid |-> FALSE, found |-> Len(vin.stream)]

\* C8: verify_checksum with a type other than md5, sha1, sha256 raises
\* ValueError and returns nothing; with one of them it returns (digest =
\* expected, digest) without error, the digest being that of the whole stream.
C8_VerifyChecksum ==
    (op = "verify_checksum" /\ pc # "start") =>
        IF vin.algorithm \in {"md5", "sha1", "sha256"}
        THEN /\ pc = "done"
             /\ vout.raised = ""
             /\ vout.found = HexDigest(HasherUpdate(vin.algorithm,
                                 HasherNew(vin.algorithm), vin.stream))
             /\ vout.valid = (vout.found = vin.expected)
        ELSE /\ pc = "raised"
             /\ error = "ValueError"
             /\ vout.raised = "ValueError"

\* C8 witness: an unknown type has raised ValueError on a non-empty stream.
C8_Witness ==
    /\ op = "verify_checksum"
    /\ vin.algorithm = "fake-type"
    /\ vin.stream # <<>>
    /\ pc = "raised"
    /\ error = "ValueError"

\* the names of the logging levels
LevelNames == {a.name : a \in {b \in LoggingAttributes : b.value.type = "int"}}

\* C9: start_logging completes for every log_level setting, and when the
\* setting is absent or names no level, the root logger and every parent
\* logger are at INFO.
C9_FallsBackToDefault ==
    (op = "start_logging" /\ pc # "start") =>
        /\ pc = "done"
        /\ (~cfg.present \/ Upper(cfg.value) \notin LevelNames) =>
              /\ loggers.root.level = IntValue(20)
              /\ \A n \in DOMAIN loggers.dict :
                    ~IsChild(n) => loggers.dict[n].level = IntValue(20)

\* C9, for settings that are absent, name a level, or name no attribute of
\* the logging module at all.
C9_FallsBackUnlessOtherAttribute ==
    (~cfg.present \/ \A a \in LoggingAttributes :
                        a.name = Upper(cfg.value) => a.value.type = "int")
        => C9_FallsBackToDefault

=============================================================================
